---- MODULE Spec2Model ----
(***************************************************************************)
(* The Pages Editor document store (PagesEditor), its utilities, the diff  *)
(* engine (compareEditorData) and the diff viewer's revert logic           *)
(* (JsonDiff.handleRevert).                                                *)
(*                                                                         *)
(* JavaScript values are tagged records, so that typeof, null, undefined,  *)
(* arrays and plain objects stay distinguishable.  Arrays of blocks that   *)
(* a document refers to live in a heap (arrays), so that "replaced, never  *)
(* mutated in place" is something the model can get wrong.  Indices are    *)
(* the code's, 0-based.  Time is a discrete clock (now); a timer callback  *)
(* runs as soon as its delay has elapsed.                                  *)
(***************************************************************************)
EXTENDS Integers, Sequences, FiniteSets, TLC

VARIABLES
    arrays,            \* heap of block arrays: arrays[r] is the array with reference r
    now,               \* the clock (Date.now / new Date())
    onChangeCalls,     \* the calls of the onChange prop, in order
    \* ---- PagesEditor
    data,              \* useState<EditorData>
    debounceTimerRef,  \* useRef: 0 is null, else the id setTimeout returned
    timers,            \* the environment's pending timeouts
    nextTimerId,       \* the id the next setTimeout returns
    mounted,           \* the editor component is mounted
    hasOnChange,       \* the onChange prop is given
    initialData,       \* the initialData prop, a JavaScript value (undefined: not given)
    readOnly,          \* the readOnly prop
    uploads,           \* the image uploads awaiting fileToBase64, each with what it captured
    cryptoAvailable,   \* crypto.randomUUID exists in this environment
    uuidCount,         \* how many UUIDs crypto.randomUUID has issued
    idCounter,         \* generateId._counter (0 while unset)
    mutations,         \* how many mutations the editor has applied
    bursts,            \* history: per burst of mutations, the document of its last mutation
    lastMutationAt,    \* history: the time of the last mutation, -1 before the first
    unmountPending,    \* history: the deadline of the timer pending at unmount, -1 if none
    \* ---- JsonDiff
    oldData,           \* the oldData prop
    newData,           \* the newData prop
    currentData,       \* useState<EditorData>(newData)
    lastRevert,        \* history: what the last handleRevert/handleAccept call did
    \* ---- direct calls of the exported utilities
    utilCalls,         \* history: the calls made, with their arguments and results
    \* ---- one block component (ListBlock, TableBlock)
    blockProp,         \* the block prop
    activeCell,        \* TableBlock's useState: null or the focused cell {row, col}
    edits              \* how many times the component has called onUpdate

vars == <<arrays, now, onChangeCalls, data, debounceTimerRef, timers, nextTimerId,
          mounted, hasOnChange, cryptoAvailable, uuidCount, idCounter, mutations,
          bursts, lastMutationAt, unmountPending,
          initialData, readOnly, uploads, oldData, newData, currentData, lastRevert,
          utilCalls, blockProp, activeCell, edits>>

editorVars == <<data, debounceTimerRef, timers, nextTimerId, mounted, hasOnChange,
                initialData, readOnly, uploads,
                cryptoAvailable, uuidCount, idCounter, mutations, bursts,
                lastMutationAt, unmountPending>>

diffVars == <<oldData, newData, currentData, lastRevert>>

utilVars == <<utilCalls>>

blockVars == <<blockProp, activeCell, edits>>

----------------------------------------------------------------------------
(* Bounds of the model *)

MaxMutations == 2      \* mutations of one editor session
MaxTime == 4           \* the clock stops here
MaxBlocks == 3         \* blocks of one document
MaxCalls == 2          \* direct calls of the utilities in one process
debounceDelayTicks == 2    \* the debounceDelay prop, in clock ticks

----------------------------------------------------------------------------
(* JavaScript values *)

Undefined == [t |-> "undefined"]
Null == [t |-> "null"]
Str(s) == [t |-> "string", v |-> s]
Bool(b) == [t |-> "boolean", v |-> b]
Num(n) == [t |-> "number", v |-> n]
Arr(s) == [t |-> "array", v |-> s]
Obj(f) == [t |-> "object", v |-> f]

typeof(x) ==
    IF x.t \in {"null", "array", "object"} THEN "object" ELSE x.t

\* o[key] on a plain object: a missing key reads as undefined
Get(o, key) == IF key \in DOMAIN o THEN o[key] ELSE Undefined

Min(a, b) == IF a < b THEN a ELSE b
Max(a, b) == IF a > b THEN a ELSE b

\* Array.prototype.splice on the sequence s: the array after it, and what it removed
Splice(s, start, deleteCount, items) ==
    LET len == Len(s)
        st == IF start < 0 THEN Max(len + start, 0) ELSE Min(start, len)
        dc == Min(Max(deleteCount, 0), len - st)
    IN  [arr |-> SubSeq(s, 1, st) \o items \o SubSeq(s, st + dc + 1, len),
         removed |-> SubSeq(s, st + 1, st + dc)]

\* a new array on the heap h holding s
Alloc(h, s) == [h |-> Append(h, s), r |-> Len(h) + 1]

----------------------------------------------------------------------------
(* PagesEditor/utils.ts *)

RandomParts == {"r1"}     \* what Math.random().toString(36) can give

\* generateId whose fallback leaves the counter out of account
generateIdNoCounter(crypto, uuids, counter, timestamp, randomPart) ==
    IF crypto
    THEN [id |-> Str(<<"block", uuids + 1>>), uuids |-> uuids + 1, counter |-> counter]
    ELSE [id |-> Str(<<"block", timestamp, randomPart, counter>>),
          uuids |-> uuids, counter |-> counter]

\* generateId: block_<uuid>, or block_<timestamp>_<random>_<counter>.
\* crypto.randomUUID is taken to return a UUID it has not returned before.
generateId(crypto, uuids, counter, timestamp, randomPart) ==
    IF crypto
    THEN [id |-> Str(<<"block", uuids + 1>>), uuids |-> uuids + 1, counter |-> counter]
    ELSE [id |-> Str(<<"block", timestamp, randomPart, counter>>),
          uuids |-> uuids, counter |-> counter + 1]

createEmptyEditorData(h, time) ==
    LET a == Alloc(h, <<>>)
    IN  [h |-> a.h,
         data |-> [version |-> "1.0.0", createdAt |-> time, updatedAt |-> time,
                   blocks |-> a.r]]

createTextBlock(id, content) ==
    [type |-> Str("text"), id |-> id, content |-> Str(content),
     fontSize |-> Str("base"), alignment |-> Str("left")]

createHeadingBlock(id, level, content) ==
    [type |-> Str("heading"), id |-> id, content |-> Str(content),
     level |-> Num(level), alignment |-> Str("left")]

createImageBlock(id, src, alt) ==
    [type |-> Str("image"), id |-> id, src |-> Str(src), alt |-> Str(alt),
     caption |-> Str(""), alignment |-> Str("center")]

createCodeBlock(id, code, language) ==
    [type |-> Str("code"), id |-> id, code |-> Str(code), language |-> Str(language),
     showLineNumbers |-> Bool(TRUE)]

createTableBlock(id, rows, cols) ==
    [type |-> Str("table"), id |-> id,
     rows |-> Arr([rowIndex \in 1..rows |->
                     Arr([c \in 1..cols |->
                            Obj([content |-> Str(""), header |-> Bool(rowIndex = 1)])])]),
     hasHeader |-> Bool(TRUE)]

createDividerBlock(id) ==
    [type |-> Str("divider"), id |-> id, style |-> Str("solid")]

createQuoteBlock(id, content) ==
    [type |-> Str("quote"), id |-> id, content |-> Str(content), style |-> Str("default")]

createListBlock(id, listType) ==
    [type |-> Str("list"), id |-> id, items |-> Arr(<<Str("")>>),
     listType |-> Str(listType),
     checkedItems |-> IF listType = "checklist" THEN Arr(<<Bool(FALSE)>>) ELSE Undefined]

createCalloutBlock(id, variant) ==
    [type |-> Str("callout"), id |-> id, content |-> Str(""), variant |-> Str(variant)]

\* JSON.parse(JSON.stringify(x)): a key whose value is undefined is dropped,
\* an undefined array element becomes null
RECURSIVE JsonValue(_)
JsonObject(o) ==
    [k \in {key \in DOMAIN o : o[key] # Undefined} |-> JsonValue(o[k])]
JsonValue(x) ==
    CASE x.t = "array" ->
            Arr([i \in DOMAIN x.v |->
                   IF x.v[i] = Undefined THEN Null ELSE JsonValue(x.v[i])])
      [] x.t = "object" -> Obj(JsonObject(x.v))
      [] OTHER -> x

\* { ...o, [key]: value }
With(o, key, value) ==
    [k \in DOMAIN o \cup {key} |-> IF k = key THEN value ELSE o[k]]

\* validateEditorData that does not look at version
validateEditorDataNoVersion(d) ==
    /\ d \notin {Undefined, Null}
    /\ typeof(d) = "object"
    /\ LET o == IF d.t = "object" THEN d.v ELSE [k \in {} |-> Undefined]
       IN  /\ typeof(Get(o, "createdAt")) = "string"
           /\ typeof(Get(o, "updatedAt")) = "string"
           /\ Get(o, "blocks").t = "array"

\* validateEditorData(data); a non-object has none of the four properties
validateEditorData(d) ==
    /\ d \notin {Undefined, Null}
    /\ typeof(d) = "object"
    /\ LET o == IF d.t = "object" THEN d.v ELSE [k \in {} |-> Undefined]
       IN  /\ typeof(Get(o, "version")) = "string"
           /\ typeof(Get(o, "createdAt")) = "string"
           /\ typeof(Get(o, "updatedAt")) = "string"
           /\ Get(o, "blocks").t = "array"

\* cloneBlock that leaves the id of the copy as it was
cloneBlockKeepsId(block, id) == JsonObject(block)

cloneBlock(block, id) == With(JsonObject(block), "id", id)

\* moveArrayItem(arr, fromIndex, toIndex) on the array arr of the heap h
moveArrayItem(h, arr, fromIndex, toIndex) ==
    LET taken == Splice(h[arr], fromIndex, 1, <<>>)
        item == IF taken.removed # <<>> THEN taken.removed[1] ELSE Undefined
        newArr == IF item # Undefined
                  THEN Splice(taken.arr, toIndex, 0, taken.removed).arr
                  ELSE taken.arr
    IN  Alloc(h, newArr)

----------------------------------------------------------------------------
(* Documents given by the caller *)

CallerId(name) == Str(<<name>>)

BlockA == [type |-> Str("text"), id |-> CallerId("a"), content |-> Str("hi"),
           fontSize |-> Str("base")]
BlockB == [type |-> Str("heading"), id |-> CallerId("b"), content |-> Str("Intro"),
           level |-> Num(1), alignment |-> Str("left")]

\* a table whose only cell addColumn made while hasHeader was not set
TableC == [type |-> Str("table"), id |-> CallerId("c"),
           rows |-> Arr(<<Arr(<<Obj([content |-> Str(""), header |-> Undefined])>>)>>)]

\* the block arrays of the documents an editor session is given
InitialBlockLists == {<<TableC>>, <<BlockA, BlockB>>}

\* an EditorData as the JavaScript value the caller passes
EditorDataValue(version, createdAt, updatedAt, blocks) ==
    Obj([version |-> version, createdAt |-> createdAt, updatedAt |-> updatedAt,
         blocks |-> blocks])

\* what the initialData prop can be: not given, null, a version that is no string,
\* blocks that are no array, or a document validateEditorData accepts
InitialDatas ==
    {Undefined, Null,
     EditorDataValue(Num(1), Str(0), Str(0), Arr(<<BlockA>>)),
     EditorDataValue(Str("1.0.0"), Str(0), Str(0), Str("none"))}
    \cup {EditorDataValue(Str("2.0.0"), Str(0), Str(0), Arr(blocks)) :
              blocks \in InitialBlockLists}

\* what updateBlock can be handed as new content
Contents == {"hello"}

\* the block types the add menu is asked for in the model
AddTypes == {"text", "list"}

----------------------------------------------------------------------------
(* PagesEditor *)

createBlock(type, id) ==
    CASE type = "text" -> createTextBlock(id, "")
      [] type = "heading" -> createHeadingBlock(id, 2, "")
      [] type = "image" -> createImageBlock(id, "", "")
      [] type = "code" -> createCodeBlock(id, "", "javascript")
      [] type = "table" -> createTableBlock(id, 3, 3)
      [] type = "divider" -> createDividerBlock(id)
      [] type = "quote" -> createQuoteBlock(id, "")
      [] type = "list" -> createListBlock(id, "bullet")
      [] type = "callout" -> createCalloutBlock(id, "info")
      [] OTHER -> createTextBlock(id, "")

clearTimeout(ts, id) == {tm \in ts : tm.id # id}

setTimeout(ts, id, at, payload) == ts \cup {[id |-> id, at |-> at, data |-> payload]}

\* updateData's notification: cancel the pending timer, then schedule onChange(newData)
scheduleNotificationStale(ts, ref, id, at, prevDoc, newDoc) ==
    setTimeout(IF ref # 0 THEN clearTimeout(ts, ref) ELSE ts, id, at, prevDoc)

scheduleNotificationNoClear(ts, ref, id, at, prevDoc, newDoc) ==
    setTimeout(ts, id, at, newDoc)

scheduleNotification(ts, ref, id, at, prevDoc, newDoc) ==
    setTimeout(IF ref # 0 THEN clearTimeout(ts, ref) ELSE ts, id, at, newDoc)

\* the unmount cleanup effect
unmountCleanupForgotten(ts, ref) == ts

unmountCleanup(ts, ref) == IF ref # 0 THEN clearTimeout(ts, ref) ELSE ts

TimerDue == \E tm \in timers : tm.at <= now

CanMutate == mounted /\ mutations < MaxMutations /\ ~TimerDue

\* the controls, the keyboard shortcuts and the blocks' own editing are there
Offered == ~readOnly

Length == Len(arrays[data.blocks])

CanGrow == Length < MaxBlocks

\* updateData that writes the new blocks into the array the document holds
updateDataInPlace(h, r) ==
    LET newDoc == [data EXCEPT !.updatedAt = now]
        inBurst == lastMutationAt >= 0 /\ now - lastMutationAt < debounceDelayTicks
        entry == [data |-> newDoc, blocks |-> h[r],
                  n |-> IF inBurst THEN bursts[Len(bursts)].n + 1 ELSE 1]
    IN  /\ arrays' = [arrays EXCEPT ![data.blocks] = h[r]]
        /\ data' = newDoc
        /\ IF hasOnChange
           THEN /\ timers' = scheduleNotification(timers, debounceTimerRef, nextTimerId,
                                                  now + debounceDelayTicks, data, newDoc)
                /\ debounceTimerRef' = nextTimerId
                /\ nextTimerId' = nextTimerId + 1
           ELSE UNCHANGED <<timers, debounceTimerRef, nextTimerId>>
        /\ mutations' = mutations + 1
        /\ bursts' = IF inBurst
                     THEN [bursts EXCEPT ![Len(bursts)] = entry]
                     ELSE Append(bursts, entry)
        /\ lastMutationAt' = now
        /\ UNCHANGED <<now, onChangeCalls, mounted, hasOnChange, initialData, readOnly,
                       uploads, cryptoAvailable,
                       unmountPending>>
        /\ UNCHANGED diffVars
        /\ UNCHANGED blockVars
        /\ UNCHANGED utilVars

\* updateData(newBlocks), newBlocks being the array r of the heap h
updateData(h, r) ==
    LET newDoc == [data EXCEPT !.blocks = r, !.updatedAt = now]
        inBurst == lastMutationAt >= 0 /\ now - lastMutationAt < debounceDelayTicks
        entry == [data |-> newDoc, blocks |-> h[r],
                  n |-> IF inBurst THEN bursts[Len(bursts)].n + 1 ELSE 1]
    IN  /\ arrays' = h
        /\ data' = newDoc
        /\ IF hasOnChange
           THEN /\ timers' = scheduleNotification(timers, debounceTimerRef, nextTimerId,
                                                  now + debounceDelayTicks, data, newDoc)
                /\ debounceTimerRef' = nextTimerId
                /\ nextTimerId' = nextTimerId + 1
           ELSE UNCHANGED <<timers, debounceTimerRef, nextTimerId>>
        /\ mutations' = mutations + 1
        /\ bursts' = IF inBurst
                     THEN [bursts EXCEPT ![Len(bursts)] = entry]
                     ELSE Append(bursts, entry)
        /\ lastMutationAt' = now
        /\ UNCHANGED <<now, onChangeCalls, mounted, hasOnChange, initialData, readOnly,
                       uploads, cryptoAvailable,
                       unmountPending>>
        /\ UNCHANGED diffVars
        /\ UNCHANGED blockVars
        /\ UNCHANGED utilVars

\* addBlock that splices the new block in at afterIndex
addBlockAtIndex(type, afterIndex, randomPart) ==
    /\ CanMutate
    /\ Offered
    /\ CanGrow
    /\ LET g == generateId(cryptoAvailable, uuidCount, idCounter, now, randomPart)
           newBlock == createBlock(type, g.id)
           copy == arrays[data.blocks]
           newBlocks == IF afterIndex >= 0
                        THEN Splice(copy, afterIndex, 0, <<newBlock>>).arr
                        ELSE Append(copy, newBlock)
           a == Alloc(arrays, newBlocks)
       IN  /\ updateData(a.h, a.r)
           /\ uuidCount' = g.uuids
           /\ idCounter' = g.counter

\* addBlock(type, afterIndex); afterIndex = -1 stands for "not given"
addBlock(type, afterIndex, randomPart) ==
    /\ CanMutate
    /\ Offered
    /\ CanGrow
    /\ LET g == generateId(cryptoAvailable, uuidCount, idCounter, now, randomPart)
           newBlock == createBlock(type, g.id)
           copy == arrays[data.blocks]
           newBlocks == IF afterIndex >= 0
                        THEN Splice(copy, afterIndex + 1, 0, <<newBlock>>).arr
                        ELSE Append(copy, newBlock)
           a == Alloc(arrays, newBlocks)
       IN  /\ updateData(a.h, a.r)
           /\ uuidCount' = g.uuids
           /\ idCounter' = g.counter

\* updateBlock that writes the slot after index
updateBlockNextSlot(index, block) ==
    /\ CanMutate
    /\ Offered
    /\ LET old == arrays[data.blocks]
           a == Alloc(arrays, IF index + 2 <= Len(old)
                              THEN [old EXCEPT ![index + 2] = block]
                              ELSE Append(old, block))
       IN  updateData(a.h, a.r)
    /\ UNCHANGED <<uuidCount, idCounter>>

updateBlock(index, block) ==
    /\ CanMutate
    /\ Offered
    /\ LET a == Alloc(arrays, [arrays[data.blocks] EXCEPT ![index + 1] = block])
       IN  updateData(a.h, a.r)
    /\ UNCHANGED <<uuidCount, idCounter>>

\* deleteBlock that keeps the last remaining block
deleteBlockKeepsLast(index) ==
    /\ CanMutate
    /\ Offered
    /\ LET old == arrays[data.blocks]
           a == Alloc(arrays, IF Len(old) = 1 THEN old
                              ELSE SubSeq(old, 1, index) \o SubSeq(old, index + 2, Len(old)))
       IN  updateData(a.h, a.r)
    /\ UNCHANGED <<uuidCount, idCounter>>

deleteBlock(index) ==
    /\ CanMutate
    /\ Offered
    /\ LET old == arrays[data.blocks]
           a == Alloc(arrays, SubSeq(old, 1, index) \o SubSeq(old, index + 2, Len(old)))
       IN  updateData(a.h, a.r)
    /\ UNCHANGED <<uuidCount, idCounter>>

duplicateBlock(index, randomPart) ==
    /\ CanMutate
    /\ Offered
    /\ CanGrow
    /\ index + 1 \in DOMAIN arrays[data.blocks]
    /\ LET g == generateId(cryptoAvailable, uuidCount, idCounter, now, randomPart)
           newBlock == cloneBlock(arrays[data.blocks][index + 1], g.id)
           a == Alloc(arrays, Splice(arrays[data.blocks], index + 1, 0, <<newBlock>>).arr)
       IN  /\ updateData(a.h, a.r)
           /\ uuidCount' = g.uuids
           /\ idCounter' = g.counter

\* moveBlockUp without its early return
moveBlockUpUnguarded(index) ==
    /\ CanMutate
    /\ Offered
    /\ LET a == moveArrayItem(arrays, data.blocks, index, index - 1)
       IN  updateData(a.h, a.r)
    /\ UNCHANGED <<uuidCount, idCounter>>

moveBlockUp(index) ==
    /\ CanMutate
    /\ Offered
    /\ index # 0
    /\ LET a == moveArrayItem(arrays, data.blocks, index, index - 1)
       IN  updateData(a.h, a.r)
    /\ UNCHANGED <<uuidCount, idCounter>>

moveBlockDown(index) ==
    /\ CanMutate
    /\ Offered
    /\ index # Length - 1
    /\ LET a == moveArrayItem(arrays, data.blocks, index, index + 1)
       IN  updateData(a.h, a.r)
    /\ UNCHANGED <<uuidCount, idCounter>>

handleDrop(dragIndex, dropIndex) ==
    /\ CanMutate
    /\ dragIndex # dropIndex
    /\ LET a == moveArrayItem(arrays, data.blocks, dragIndex, dropIndex)
       IN  updateData(a.h, a.r)
    /\ UNCHANGED <<uuidCount, idCounter>>

\* the timer callback: onChange(newData)
FireTimer ==
    /\ \E tm \in timers :
        /\ tm.at <= now
        /\ timers' = timers \ {tm}
        /\ onChangeCalls' = Append(onChangeCalls,
                                   [data |-> tm.data, blocks |-> arrays[tm.data.blocks],
                                    at |-> now, mounted |-> mounted, sync |-> FALSE])
    /\ UNCHANGED <<arrays, now, data, debounceTimerRef, nextTimerId, mounted, hasOnChange,
                   initialData, readOnly, uploads,
                   cryptoAvailable, uuidCount, idCounter, mutations, bursts,
                   lastMutationAt, unmountPending>>
    /\ UNCHANGED diffVars
    /\ UNCHANGED blockVars
    /\ UNCHANGED utilVars

Unmount ==
    /\ mounted
    /\ mounted' = FALSE
    /\ timers' = unmountCleanup(timers, debounceTimerRef)
    /\ unmountPending' = IF timers = {} THEN -1
                         ELSE (CHOOSE tm \in timers : \A o \in timers : o.at <= tm.at).at
    /\ UNCHANGED <<arrays, now, onChangeCalls, data, debounceTimerRef, nextTimerId,
                   initialData, readOnly, uploads,
                   hasOnChange, cryptoAvailable, uuidCount, idCounter, mutations, bursts,
                   lastMutationAt>>
    /\ UNCHANGED diffVars
    /\ UNCHANGED blockVars
    /\ UNCHANGED utilVars

\* time passes; a timer that is due runs first
Tick ==
    /\ now < MaxTime
    /\ ~TimerDue
    /\ now' = now + 1
    /\ UNCHANGED <<arrays, onChangeCalls>>
    /\ UNCHANGED editorVars
    /\ UNCHANGED diffVars
    /\ UNCHANGED blockVars
    /\ UNCHANGED utilVars

NoDocument == [version |-> "", createdAt |-> 0, updatedAt |-> 0, blocks |-> 0]

\* no block component is mounted
NoBlock == [type |-> Str("none")]

NoRevert == [kind |-> "none"]

\* useState(() => ...): the given document when it validates, else an empty one
initialState(h, given, time) ==
    IF validateEditorData(given)
    THEN LET a == Alloc(h, given.v.blocks.v)
         IN  [h |-> a.h,
              data |-> [version |-> given.v.version.v, createdAt |-> given.v.createdAt.v,
                        updatedAt |-> given.v.updatedAt.v, blocks |-> a.r]]
    ELSE createEmptyEditorData(h, time)

NoCalls == <<>>

Init ==
    /\ now = 1
    /\ initialData \in InitialDatas
    /\ readOnly \in BOOLEAN
    /\ uploads = {}
    /\ arrays = initialState(<<>>, initialData, now).h
    /\ data = initialState(<<>>, initialData, now).data
    /\ utilCalls = NoCalls
    /\ onChangeCalls = <<>>
    /\ debounceTimerRef = 0
    /\ timers = {}
    /\ nextTimerId = 1
    /\ mounted = TRUE
    /\ hasOnChange \in BOOLEAN
    /\ cryptoAvailable \in BOOLEAN
    /\ uuidCount = 0
    /\ idCounter = 0
    /\ mutations = 0
    /\ bursts = <<>>
    /\ lastMutationAt = -1
    /\ unmountPending = -1
    /\ oldData = NoDocument
    /\ newData = NoDocument
    /\ currentData = NoDocument
    /\ lastRevert = NoRevert
    /\ blockProp = NoBlock
    /\ activeCell = Null
    /\ edits = 0

Next ==
    \/ \E type \in AddTypes, afterIndex \in -1..(Length - 1), randomPart \in RandomParts :
           addBlock(type, afterIndex, randomPart)
    \/ \E index \in 0..(Length - 1), content \in Contents :
           updateBlock(index, With(arrays[data.blocks][index + 1], "content", Str(content)))
    \/ \E index \in 0..(Length - 1) : deleteBlock(index)
    \/ \E index \in 0..Length, randomPart \in RandomParts : duplicateBlock(index, randomPart)
    \/ \E index \in 0..(Length - 1) : moveBlockUp(index)
    \/ \E index \in 0..(Length - 1) : moveBlockDown(index)
    \/ \E dragIndex \in 0..(Length - 1), dropIndex \in 0..(Length - 1) :
           handleDrop(dragIndex, dropIndex)
    \/ FireTimer
    \/ Unmount
    \/ Tick

Spec == Init /\ [][Next]_vars

----------------------------------------------------------------------------
(* Claims about the debounced change notification *)

\* C1: with an onChange callback, every burst of mutations (each less than
\* debounceDelay after the previous one) gives exactly one onChange call, whose
\* argument is the document of the burst's last mutation: the i-th call carries
\* the i-th burst's final document, and while the editor is mounted only the
\* burst whose timer is still pending has no call yet.
C1_BurstGivesOneCall ==
    hasOnChange =>
        /\ Len(onChangeCalls) <= Len(bursts)
        /\ \A i \in 1..Len(onChangeCalls) :
              /\ onChangeCalls[i].data = bursts[i].data
              /\ onChangeCalls[i].blocks = bursts[i].blocks
        /\ mounted =>
              Len(onChangeCalls) = Len(bursts) - (IF timers # {} THEN 1 ELSE 0)

\* a burst of at least two mutations has been notified
C1_Witness ==
    /\ hasOnChange
    /\ \E i \in 1..Len(onChangeCalls) : bursts[i].n >= 2

\* C2: onChange is never called after the unmount.
C2_NoCallAfterUnmount ==
    \A i \in 1..Len(onChangeCalls) : onChangeCalls[i].mounted

\* the editor was unmounted with a timer pending, and that timer's deadline has passed
C2_Witness ==
    /\ ~mounted
    /\ unmountPending >= 0
    /\ now >= unmountPending

\* C3: at most one debounce timer is pending, and it is the one the ref holds.
C3_AtMostOneTimer ==
    /\ Cardinality(timers) <= 1
    /\ \A tm \in timers : tm.id = debounceTimerRef

\* a mutation found a timer pending and rescheduled it
C3_Witness ==
    /\ timers # {}
    /\ nextTimerId > 2
    /\ onChangeCalls = <<>>

----------------------------------------------------------------------------
(* JsonDiff/utils.ts *)

\* a === b for primitives.  Two object references are identical only when they
\* are one object, and then the structural comparison below gives true as well.
StrictEquals(a, b) ==
    /\ a.t \in {"undefined", "null", "string", "boolean", "number"}
    /\ a = b

\* Object.keys, in a fixed order of the key names
KeyOrder == <<"type", "id", "content", "fontSize", "alignment", "level", "src", "alt",
              "caption", "code", "language", "showLineNumbers", "rows", "hasHeader",
              "style", "items", "listType", "checkedItems", "variant", "header",
              "bold", "italic">>

ObjectKeys(o) == SelectSeq(KeyOrder, LAMBDA key : key \in DOMAIN o)

RECURSIVE deepEqual(_, _)
deepEqual(a, b) ==
    IF StrictEquals(a, b) THEN TRUE
    ELSE IF typeof(a) # typeof(b) THEN FALSE
    ELSE IF a = Null \/ b = Null THEN FALSE
    ELSE IF typeof(a) # "object" THEN FALSE
    ELSE IF a.t = "array" /\ b.t = "array"
         THEN /\ Len(a.v) = Len(b.v)
              /\ \A index \in 1..Len(a.v) : deepEqual(a.v[index], b.v[index])
    ELSE IF a.t = "array" \/ b.t = "array" THEN FALSE
    ELSE /\ Len(ObjectKeys(a.v)) = Len(ObjectKeys(b.v))
         /\ \A index \in 1..Len(ObjectKeys(a.v)) :
               deepEqual(a.v[ObjectKeys(a.v)[index]], Get(b.v, ObjectKeys(a.v)[index]))

getPropertyChanges(oldBlock, newBlock) ==
    LET oldKeys == ObjectKeys(oldBlock)
        allKeys == oldKeys \o SelectSeq(ObjectKeys(newBlock),
                                        LAMBDA key : key \notin DOMAIN oldBlock)
        differs(key) == key # "id" /\ ~deepEqual(Get(oldBlock, key), Get(newBlock, key))
        changed == SelectSeq(allKeys, differs)
    IN  [i \in 1..Len(changed) |->
            [path |-> changed[i], oldValue |-> Get(oldBlock, changed[i]),
             newValue |-> Get(newBlock, changed[i])]]

\* new Map(blocks.map((b) => [b.id, b])) : has / get (the last block of an id wins)
MapHas(blocks, id) == \E i \in 1..Len(blocks) : Get(blocks[i], "id") = id
MapGet(blocks, id) ==
    blocks[CHOOSE i \in 1..Len(blocks) :
              /\ Get(blocks[i], "id") = id
              /\ \A j \in (i + 1)..Len(blocks) : Get(blocks[j], "id") # id]

\* the entry compareEditorData pushes for one block of the new document
NewBlockDiff(oldBlocks, newBlock) ==
    IF ~MapHas(oldBlocks, Get(newBlock, "id"))
    THEN [type |-> "added", newBlock |-> newBlock]
    ELSE LET oldBlock == MapGet(oldBlocks, Get(newBlock, "id"))
             changes == getPropertyChanges(oldBlock, newBlock)
         IN  IF Len(changes) > 0
             THEN [type |-> "modified", oldBlock |-> oldBlock, newBlock |-> newBlock,
                   changes |-> changes]
             ELSE [type |-> "unchanged", oldBlock |-> oldBlock, newBlock |-> newBlock]

CountType(blockDiffs, type) == Len(SelectSeq(blockDiffs, LAMBDA d : d.type = type))

\* compareEditorData without the processed-id test of its second loop
compareEditorDataAllOld(h, oldDoc, newDoc) ==
    LET oldBlocks == h[oldDoc.blocks]
        newBlocks == h[newDoc.blocks]
        present == [i \in 1..Len(newBlocks) |-> NewBlockDiff(oldBlocks, newBlocks[i])]
        removed == [i \in 1..Len(oldBlocks) |->
                      [type |-> "removed", oldBlock |-> oldBlocks[i]]]
        blockDiffs == present \o removed
    IN  [blocks |-> blockDiffs,
         summary |-> [added |-> CountType(blockDiffs, "added"),
                      removed |-> CountType(blockDiffs, "removed"),
                      modified |-> CountType(blockDiffs, "modified"),
                      unchanged |-> CountType(blockDiffs, "unchanged")]]

\* compareEditorData with its two loops in the other order
compareEditorDataRemovedFirst(h, oldDoc, newDoc) ==
    LET oldBlocks == h[oldDoc.blocks]
        newBlocks == h[newDoc.blocks]
        processedIds == {Get(newBlocks[i], "id") : i \in 1..Len(newBlocks)}
        present == [i \in 1..Len(newBlocks) |-> NewBlockDiff(oldBlocks, newBlocks[i])]
        gone == SelectSeq(oldBlocks, LAMBDA b : Get(b, "id") \notin processedIds)
        removed == [i \in 1..Len(gone) |-> [type |-> "removed", oldBlock |-> gone[i]]]
        blockDiffs == removed \o present
    IN  [blocks |-> blockDiffs,
         summary |-> [added |-> CountType(blockDiffs, "added"),
                      removed |-> CountType(blockDiffs, "removed"),
                      modified |-> CountType(blockDiffs, "modified"),
                      unchanged |-> CountType(blockDiffs, "unchanged")]]

\* compareEditorData that pairs the blocks of old and new by position
compareEditorDataByPosition(h, oldDoc, newDoc) ==
    LET oldBlocks == h[oldDoc.blocks]
        newBlocks == h[newDoc.blocks]
        present == [i \in 1..Len(newBlocks) |->
                      IF i > Len(oldBlocks)
                      THEN [type |-> "added", newBlock |-> newBlocks[i]]
                      ELSE NewBlockDiff(<<With(oldBlocks[i], "id", Get(newBlocks[i], "id"))>>,
                                        newBlocks[i])]
        removed == [i \in 1..(Len(oldBlocks) - Min(Len(oldBlocks), Len(newBlocks))) |->
                      [type |-> "removed", oldBlock |-> oldBlocks[Len(newBlocks) + i]]]
        blockDiffs == present \o removed
    IN  [blocks |-> blockDiffs,
         summary |-> [added |-> CountType(blockDiffs, "added"),
                      removed |-> CountType(blockDiffs, "removed"),
                      modified |-> CountType(blockDiffs, "modified"),
                      unchanged |-> CountType(blockDiffs, "unchanged")]]

\* compareEditorData(oldData, newData), the documents' arrays being in the heap h
compareEditorData(h, oldDoc, newDoc) ==
    LET oldBlocks == h[oldDoc.blocks]
        newBlocks == h[newDoc.blocks]
        processedIds == {Get(newBlocks[i], "id") : i \in 1..Len(newBlocks)}
        present == [i \in 1..Len(newBlocks) |-> NewBlockDiff(oldBlocks, newBlocks[i])]
        gone == SelectSeq(oldBlocks, LAMBDA b : Get(b, "id") \notin processedIds)
        removed == [i \in 1..Len(gone) |-> [type |-> "removed", oldBlock |-> gone[i]]]
        blockDiffs == present \o removed
    IN  [blocks |-> blockDiffs,
         summary |-> [added |-> CountType(blockDiffs, "added"),
                      removed |-> CountType(blockDiffs, "removed"),
                      modified |-> CountType(blockDiffs, "modified"),
                      unchanged |-> CountType(blockDiffs, "unchanged")]]

----------------------------------------------------------------------------
(* JsonDiff: the viewer's state and handleRevert *)

\* the documents the viewer is given.  TableC has the cell addColumn makes on a
\* table without hasHeader, TableC2 the cell addRow and setCellAlignment make.
BlockA2 == With(BlockA, "content", Str("hello"))
BlockA3 == With(BlockA, "type", Str("heading"))
TableC2 == [type |-> Str("table"), id |-> CallerId("c"),
            rows |-> Arr(<<Arr(<<Obj([content |-> Str(""), alignment |-> Str("left")])>>)>>)]

OldPool == {BlockA, BlockB, TableC}
NewPool == {BlockA, BlockA2, BlockA3, BlockB, TableC, TableC2}

Ids(blocks) == {Get(blocks[i], "id") : i \in 1..Len(blocks)}
UniqueIds(blocks) == Cardinality(Ids(blocks)) = Len(blocks)

\* the block arrays over a pool, ids unique as the data model requires
Documents(pool) ==
    {blocks \in UNION {[1..n -> pool] : n \in 0..MaxBlocks} : UniqueIds(blocks)}

\* blocks.findIndex((b) => b.id === id)
FindIndex(blocks, id) ==
    IF \E i \in 1..Len(blocks) : Get(blocks[i], "id") = id
    THEN (CHOOSE i \in 1..Len(blocks) :
             /\ Get(blocks[i], "id") = id
             /\ \A j \in 1..(i - 1) : Get(blocks[j], "id") # id) - 1
    ELSE -1

SetMax(S) == CHOOSE x \in S : \A y \in S : y <= x

\* the removed block put back at the index it had in the old document
revertInsertIndexFixed(oldBlocks, curBlocks, diff) ==
    Min(FindIndex(oldBlocks, Get(diff.oldBlock, "id")), Len(curBlocks))

\* where handleRevert puts a removed block back
revertInsertIndex(oldBlocks, curBlocks, diff) ==
    LET oldIndex == FindIndex(oldBlocks, Get(diff.oldBlock, "id"))
        surviving == {i \in 0..(oldIndex - 1) :
                         FindIndex(curBlocks, Get(oldBlocks[i + 1], "id")) # -1}
    IN  IF surviving = {}
        THEN Len(curBlocks)
        ELSE FindIndex(curBlocks, Get(oldBlocks[SetMax(surviving) + 1], "id")) + 1

\* the added block spliced out of the current array itself
revertAddedInPlace(h, cur, diff) ==
    [h |-> [h EXCEPT ![cur.blocks] =
                SelectSeq(h[cur.blocks],
                          LAMBDA b : Get(b, "id") # Get(diff.newBlock, "id"))],
     r |-> cur.blocks]

revertAdded(h, cur, diff) ==
    Alloc(h, SelectSeq(h[cur.blocks],
                       LAMBDA b : Get(b, "id") # Get(diff.newBlock, "id")))

revertRemoved(h, old, cur, diff) ==
    Alloc(h, Splice(h[cur.blocks], revertInsertIndex(h[old.blocks], h[cur.blocks], diff),
                    0, <<diff.oldBlock>>).arr)

revertModified(h, cur, diff) ==
    Alloc(h, [i \in 1..Len(h[cur.blocks]) |->
                IF Get(h[cur.blocks][i], "id") = Get(diff.newBlock, "id")
                THEN diff.oldBlock
                ELSE h[cur.blocks][i]])

\* handleRevert that leaves updatedAt as it was
revertKeepsUpdatedAt(h, old, cur, diff, time) ==
    LET isAdded == diff.type = "added" /\ "newBlock" \in DOMAIN diff
        isRemoved == diff.type = "removed" /\ "oldBlock" \in DOMAIN diff
        isModified == /\ diff.type = "modified"
                      /\ "oldBlock" \in DOMAIN diff
                      /\ "newBlock" \in DOMAIN diff
        a == IF isAdded THEN revertAdded(h, cur, diff)
             ELSE IF isRemoved THEN revertRemoved(h, old, cur, diff)
             ELSE IF isModified THEN revertModified(h, cur, diff)
             ELSE [h |-> h, r |-> cur.blocks]
        changed == isAdded \/ isRemoved \/ isModified
    IN  [changed |-> changed,
         h |-> a.h,
         data |-> IF changed THEN [cur EXCEPT !.blocks = a.r] ELSE cur]

\* handleRevert(diff) at the given time: whether it goes past the early return,
\* and then the heap and the document it leaves
revert(h, old, cur, diff, time) ==
    LET isAdded == diff.type = "added" /\ "newBlock" \in DOMAIN diff
        isRemoved == diff.type = "removed" /\ "oldBlock" \in DOMAIN diff
        isModified == /\ diff.type = "modified"
                      /\ "oldBlock" \in DOMAIN diff
                      /\ "newBlock" \in DOMAIN diff
        a == IF isAdded THEN revertAdded(h, cur, diff)
             ELSE IF isRemoved THEN revertRemoved(h, old, cur, diff)
             ELSE IF isModified THEN revertModified(h, cur, diff)
             ELSE [h |-> h, r |-> cur.blocks]
        changed == isAdded \/ isRemoved \/ isModified
    IN  [changed |-> changed,
         h |-> a.h,
         data |-> IF changed THEN [cur EXCEPT !.blocks = a.r, !.updatedAt = time]
                  ELSE cur]

\* the diff the viewer renders: old against current
diffResult == compareEditorData(arrays, oldData, currentData)

DiffEntries == {diffResult.blocks[i] : i \in 1..Len(diffResult.blocks)}

handleRevert(diff) ==
    LET res == revert(arrays, oldData, currentData, diff, now)
    IN  /\ res.changed
        /\ arrays' = res.h
        /\ currentData' = res.data
        /\ onChangeCalls' =
              IF hasOnChange
              THEN Append(onChangeCalls,
                          [data |-> res.data, blocks |-> res.h[res.data.blocks],
                           at |-> now, mounted |-> TRUE, sync |-> TRUE])
              ELSE onChangeCalls
        /\ lastRevert' = [kind |-> "revert", diff |-> diff, at |-> now,
                          before |-> currentData,
                          beforeBlocks |-> arrays[currentData.blocks],
                          oldBlocks |-> arrays[oldData.blocks],
                          newBlocks |-> arrays[newData.blocks],
                          count |-> IF lastRevert.kind = "none" THEN 1
                                    ELSE lastRevert.count + 1,
                          types |-> IF lastRevert.kind = "none" THEN {diff.type}
                                    ELSE lastRevert.types \cup {diff.type}]
        /\ UNCHANGED <<now, oldData, newData>>
        /\ UNCHANGED editorVars
        /\ UNCHANGED blockVars
        /\ UNCHANGED utilVars

InitDiff ==
    /\ \E oldBlocks \in Documents(OldPool), newBlocks \in Documents(NewPool) :
          arrays = <<oldBlocks, newBlocks>>
    /\ oldData = [version |-> "1.0.0", createdAt |-> 0, updatedAt |-> 0, blocks |-> 1]
    /\ newData = [version |-> "1.1.0", createdAt |-> 1, updatedAt |-> 1, blocks |-> 2]
    /\ currentData = newData
    /\ lastRevert = NoRevert
    /\ blockProp = NoBlock
    /\ activeCell = Null
    /\ edits = 0
    /\ now = MaxTime - 1
    /\ onChangeCalls = <<>>
    /\ hasOnChange \in BOOLEAN
    /\ data = NoDocument
    /\ debounceTimerRef = 0
    /\ timers = {}
    /\ nextTimerId = 1
    /\ mounted = FALSE
    /\ cryptoAvailable = TRUE
    /\ uuidCount = 0
    /\ idCounter = 0
    /\ mutations = 0
    /\ bursts = <<>>
    /\ lastMutationAt = -1
    /\ unmountPending = -1
    /\ initialData = Undefined
    /\ readOnly = FALSE
    /\ uploads = {}
    /\ utilCalls = <<>>

NextDiff ==
    \/ \E diff \in DiffEntries : handleRevert(diff)
    \/ Tick

SpecDiff == InitDiff /\ [][NextDiff]_vars

----------------------------------------------------------------------------
(* Claims about the diff engine; old is the old document's array, cur the
   current document's, entries what compareEditorData returns for them *)

OldBlocks == arrays[oldData.blocks]
CurBlocks == arrays[currentData.blocks]
Entries == diffResult.blocks

\* the id a diff entry is about
EntryId(d) ==
    IF "newBlock" \in DOMAIN d THEN Get(d.newBlock, "id") ELSE Get(d.oldBlock, "id")

\* C4: with unique ids in both documents, every id of ids(old) \cup ids(new) is
\* in exactly one entry, and the four counts of the summary add up to the number
\* of entries, which is the number of ids.
C4_EveryIdInOneEntry ==
    LET old == OldBlocks
        cur == CurBlocks
        result == diffResult
        entries == result.blocks
        sm == result.summary
        ids == Ids(old) \cup Ids(cur)
    IN  (UniqueIds(old) /\ UniqueIds(cur)) =>
            /\ \A id \in ids :
                  Cardinality({i \in 1..Len(entries) : EntryId(entries[i]) = id}) = 1
            /\ \A i \in 1..Len(entries) : EntryId(entries[i]) \in ids
            /\ sm.added + sm.removed + sm.modified + sm.unchanged = Len(entries)
            /\ Len(entries) = Cardinality(ids)

\* a diff with an id only in old, an id only in new and an id in both
C4_Witness ==
    /\ lastRevert.kind = "none"
    /\ Ids(OldBlocks) \ Ids(CurBlocks) # {}
    /\ Ids(CurBlocks) \ Ids(OldBlocks) # {}
    /\ Ids(CurBlocks) \cap Ids(OldBlocks) # {}

\* the block of the array that has the id
BlockOf(blocks, id) == blocks[FindIndex(blocks, id) + 1]

\* the properties other than id in which two blocks differ structurally
Differing(oldBlock, newBlock) ==
    {key \in (DOMAIN oldBlock \cup DOMAIN newBlock) \ {"id"} :
        Get(oldBlock, key) # Get(newBlock, key)}

\* C5: a block of new with an id not in old is added; a block with an id in both
\* is unchanged when no property other than id differs and modified otherwise,
\* and then changes lists exactly the differing properties, each once, with the
\* old and the new value (a changed type as a change of "type"); a block of old
\* with an id not in new is removed.
C5_Classification ==
    LET old == OldBlocks
        cur == CurBlocks
        entries == Entries
    IN  /\ \A i \in 1..Len(cur) :
              LET b == cur[i]
                  d == entries[i]
              IN  IF Get(b, "id") \notin Ids(old)
                  THEN d.type = "added" /\ d.newBlock = b
                  ELSE LET o == BlockOf(old, Get(b, "id"))
                           diffs == Differing(o, b)
                       IN  /\ d.oldBlock = o
                           /\ d.newBlock = b
                           /\ IF diffs = {}
                              THEN d.type = "unchanged"
                              ELSE /\ d.type = "modified"
                                   /\ Len(d.changes) = Cardinality(diffs)
                                   /\ {d.changes[k].path : k \in 1..Len(d.changes)} = diffs
                                   /\ \A k \in 1..Len(d.changes) :
                                         /\ d.changes[k].oldValue = Get(o, d.changes[k].path)
                                         /\ d.changes[k].newValue = Get(b, d.changes[k].path)
        /\ \A k \in 1..Len(old) :
              Get(old[k], "id") \notin Ids(cur) =>
                  \E i \in 1..Len(entries) :
                      entries[i].type = "removed" /\ entries[i].oldBlock = old[k]

\* C6: the entries are one entry per block of new, in new's order, then the
\* removed entries, in old's order.
C6_EntryOrder ==
    LET old == OldBlocks
        cur == CurBlocks
        entries == Entries
        n == Len(cur)
        tail == (n + 1)..Len(entries)
    IN  /\ Len(entries) >= n
        /\ \A i \in 1..n :
              /\ entries[i].type \in {"added", "modified", "unchanged"}
              /\ entries[i].newBlock = cur[i]
        /\ \A i \in tail : entries[i].type = "removed"
        /\ {entries[i].oldBlock : i \in tail} =
              {old[k] : k \in {j \in 1..Len(old) : Get(old[j], "id") \notin Ids(cur)}}
        /\ \A i \in tail, j \in tail :
              i < j => FindIndex(old, EntryId(entries[i]))
                          < FindIndex(old, EntryId(entries[j]))

\* two removed entries follow an entry of a block of new
C6_Witness ==
    /\ Len(CurBlocks) >= 1
    /\ Len(Entries) >= Len(CurBlocks) + 2

----------------------------------------------------------------------------
(* Claims about handleRevert; before is the current array handleRevert found,
   after the current array it left *)

Reverted(type) == lastRevert.kind = "revert" /\ lastRevert.diff.type = type

\* the sequence without its element at position pos
Without(seq, pos) == SubSeq(seq, 1, pos - 1) \o SubSeq(seq, pos + 1, Len(seq))

\* C7: for every entry of the diff that is added, removed or modified, handleRevert
\* applied a second time with the same entry leaves the blocks its first
\* application produced.
C7_RevertIdempotent ==
    \A d \in DiffEntries :
        d.type \in {"added", "removed", "modified"} =>
            LET once == revert(arrays, oldData, currentData, d, now)
                twice == revert(once.h, oldData, once.data, d, now)
            IN  twice.h[twice.data.blocks] = once.h[once.data.blocks]

\* C8: reverting a removed entry puts entry.oldBlock right after the current
\* position of the nearest block that precedes it in the old document and is
\* still among the current blocks, at the end when there is none, and the other
\* current blocks keep their order.
C8_RemovedGoesAfterNearestSurvivor ==
    Reverted("removed") =>
        LET before == lastRevert.beforeBlocks
            after == CurBlocks
            old == lastRevert.oldBlocks
            block == lastRevert.diff.oldBlock
            p == FindIndex(old, Get(block, "id")) + 1
            survivors == {k \in 1..(p - 1) : Get(old[k], "id") \in Ids(before)}
            pos == IF survivors = {}
                   THEN Len(before) + 1
                   ELSE FindIndex(before, Get(old[SetMax(survivors)], "id")) + 2
        IN  /\ Len(after) = Len(before) + 1
            /\ after[pos] = block
            /\ Without(after, pos) = before

\* a removed block went back between two current blocks
C8_Witness ==
    /\ Reverted("removed")
    /\ \E pos \in 2..(Len(CurBlocks) - 1) : CurBlocks[pos] = lastRevert.diff.oldBlock

\* C9: reverting an added entry takes out exactly the block with the id of
\* entry.newBlock, reverting a modified entry puts entry.oldBlock in the place of
\* the block with that id; every other block stays, in the same order, and the
\* arrays of the old, the new and the previous current document are not changed.
C9_AddedAndModifiedFrame ==
    /\ Reverted("added") =>
          CurBlocks = SelectSeq(lastRevert.beforeBlocks,
                                LAMBDA b : Get(b, "id") # EntryId(lastRevert.diff))
    /\ Reverted("modified") =>
          /\ Len(CurBlocks) = Len(lastRevert.beforeBlocks)
          /\ \A i \in 1..Len(CurBlocks) :
                CurBlocks[i] = IF Get(lastRevert.beforeBlocks[i], "id")
                                     = EntryId(lastRevert.diff)
                               THEN lastRevert.diff.oldBlock
                               ELSE lastRevert.beforeBlocks[i]
    /\ (Reverted("added") \/ Reverted("modified")) =>
          /\ arrays[oldData.blocks] = lastRevert.oldBlocks
          /\ arrays[newData.blocks] = lastRevert.newBlocks
          /\ arrays[lastRevert.before.blocks] = lastRevert.beforeBlocks

\* an added and a modified entry have been reverted, the last one in a document
\* that keeps another block
C9_Witness ==
    /\ lastRevert.kind = "revert"
    /\ {"added", "modified"} \subseteq lastRevert.types
    /\ lastRevert.diff.type \in {"added", "modified"}
    /\ Len(lastRevert.beforeBlocks) >= 2

\* C10: every revert of an added, removed or modified entry calls onChange once,
\* inside the revert, with the document the viewer then holds: the reverted
\* blocks, updatedAt refreshed, version and createdAt of the document before; an
\* unchanged entry changes nothing and calls nothing.
C10_RevertNotifiesOnce ==
    /\ timers = {}
    /\ Len(onChangeCalls) = IF hasOnChange /\ lastRevert.kind = "revert"
                            THEN lastRevert.count ELSE 0
    /\ lastRevert.kind = "revert" =>
          /\ currentData.updatedAt = lastRevert.at
          /\ currentData.version = lastRevert.before.version
          /\ currentData.createdAt = lastRevert.before.createdAt
          /\ hasOnChange =>
                LET call == onChangeCalls[Len(onChangeCalls)]
                IN  /\ call.data = currentData
                    /\ call.blocks = CurBlocks
                    /\ call.at = lastRevert.at
                    /\ call.sync
    /\ \A d \in DiffEntries :
          d.type = "unchanged" => ~revert(arrays, oldData, currentData, d, now).changed

\* a second revert has notified, while the diff still has an unchanged entry
C10_Witness ==
    /\ hasOnChange
    /\ lastRevert.kind = "revert"
    /\ lastRevert.count >= 2
    /\ \E d \in DiffEntries : d.type = "unchanged"

----------------------------------------------------------------------------
(* The exported utilities called directly: moveArrayItem on arrays of any
   elements and with any indices, generateId, cloneBlock *)

\* the arrays moveArrayItem is handed
InputArrays == {<<>>, <<Str("a")>>, <<Str("a"), Str("b"), Str("c")>>,
                <<Undefined, Str("a"), Str("b")>>}

\* the indices it is handed, in range or not
Indices == -1..MaxBlocks

\* the blocks cloneBlock is handed
ClonePool == {BlockA, TableC, createListBlock(CallerId("l"), "bullet")}

\* the reference of the array the caller holds
InputArray == 1

CanCall == Len(utilCalls) < MaxCalls

callMoveArrayItem(arr, fromIndex, toIndex) ==
    /\ CanCall
    /\ LET res == moveArrayItem(arrays, arr, fromIndex, toIndex)
       IN  /\ arrays' = res.h
           /\ utilCalls' = Append(utilCalls,
                                  [fn |-> "moveArrayItem", arr |-> arr,
                                   before |-> arrays[arr], fromIndex |-> fromIndex,
                                   toIndex |-> toIndex, result |-> res.r])
    /\ UNCHANGED <<now, onChangeCalls>>
    /\ UNCHANGED editorVars
    /\ UNCHANGED diffVars
    /\ UNCHANGED blockVars

callGenerateId(randomPart) ==
    /\ CanCall
    /\ LET g == generateId(cryptoAvailable, uuidCount, idCounter, now, randomPart)
       IN  /\ uuidCount' = g.uuids
           /\ idCounter' = g.counter
           /\ utilCalls' = Append(utilCalls, [fn |-> "generateId", id |-> g.id, at |-> now])
    /\ UNCHANGED <<arrays, now, onChangeCalls, data, debounceTimerRef, timers, nextTimerId,
                   mounted, hasOnChange, initialData, readOnly, uploads, cryptoAvailable,
                   mutations, bursts,
                   lastMutationAt, unmountPending>>
    /\ UNCHANGED diffVars
    /\ UNCHANGED blockVars

callCloneBlock(block, randomPart) ==
    /\ CanCall
    /\ LET g == generateId(cryptoAvailable, uuidCount, idCounter, now, randomPart)
       IN  /\ uuidCount' = g.uuids
           /\ idCounter' = g.counter
           /\ utilCalls' = Append(utilCalls,
                                  [fn |-> "cloneBlock", block |-> block,
                                   clone |-> cloneBlock(block, g.id), id |-> g.id,
                                   at |-> now])
    /\ UNCHANGED <<arrays, now, onChangeCalls, data, debounceTimerRef, timers, nextTimerId,
                   mounted, hasOnChange, initialData, readOnly, uploads, cryptoAvailable,
                   mutations, bursts,
                   lastMutationAt, unmountPending>>
    /\ UNCHANGED diffVars
    /\ UNCHANGED blockVars

InitUtils ==
    /\ \E arr \in InputArrays : arrays = <<arr>>
    /\ utilCalls = NoCalls
    /\ now = MaxTime - 1
    /\ cryptoAvailable \in BOOLEAN
    /\ uuidCount = 0
    /\ idCounter = 0
    /\ onChangeCalls = <<>>
    /\ hasOnChange = FALSE
    /\ initialData = Undefined
    /\ readOnly = FALSE
    /\ uploads = {}
    /\ data = NoDocument
    /\ debounceTimerRef = 0
    /\ timers = {}
    /\ nextTimerId = 1
    /\ mounted = FALSE
    /\ mutations = 0
    /\ bursts = <<>>
    /\ lastMutationAt = -1
    /\ unmountPending = -1
    /\ oldData = NoDocument
    /\ newData = NoDocument
    /\ currentData = NoDocument
    /\ lastRevert = NoRevert
    /\ blockProp = NoBlock
    /\ activeCell = Null
    /\ edits = 0

NextUtils ==
    \/ \E fromIndex \in Indices, toIndex \in Indices :
           callMoveArrayItem(InputArray, fromIndex, toIndex)
    \/ \E randomPart \in RandomParts : callGenerateId(randomPart)
    \/ \E block \in ClonePool, randomPart \in RandomParts : callCloneBlock(block, randomPart)
    \/ Tick

SpecUtils == InitUtils /\ [][NextUtils]_vars

----------------------------------------------------------------------------
(* Claims about the utilities *)

CallsOf(fn) == {i \in 1..Len(utilCalls) : utilCalls[i].fn = fn}

\* how often x occurs in seq
Count(seq, x) == Cardinality({i \in 1..Len(seq) : seq[i] = x})

\* arr[index] as JavaScript reads it
At(seq, index) == IF index + 1 \in 1..Len(seq) THEN seq[index + 1] ELSE Undefined

\* C11: whatever arr, fromIndex and toIndex are, moveArrayItem leaves arr as it
\* was and returns another array of the same length that is a permutation of arr.
C11_MoveArrayItemPermutes ==
    \A i \in CallsOf("moveArrayItem") :
        LET c == utilCalls[i]
            r == arrays[c.result]
        IN  /\ arrays[c.arr] = c.before
            /\ c.result # c.arr
            /\ Len(r) = Len(c.before)
            /\ \A k \in 1..Len(c.before) : Count(r, c.before[k]) = Count(c.before, c.before[k])

\* C12: with both indices in range, the result has arr[fromIndex] at toIndex and
\* the other elements in their original order.
C12_MoveArrayItemRelocates ==
    \A i \in CallsOf("moveArrayItem") :
        LET c == utilCalls[i]
            r == arrays[c.result]
            inRange(index) == 0 <= index /\ index < Len(c.before)
        IN  inRange(c.fromIndex) /\ inRange(c.toIndex) =>
                /\ At(r, c.toIndex) = At(c.before, c.fromIndex)
                /\ Without(r, c.toIndex + 1) = Without(c.before, c.fromIndex + 1)

\* C13: the clone has a fresh id, different from the block's, and the block's
\* type and other properties, deep-equal.
C13_CloneBlockDeepCopy ==
    \A i \in CallsOf("cloneBlock") :
        LET c == utilCalls[i]
        IN  /\ c.clone.id = c.id
            /\ c.clone.id # c.block.id
            /\ DOMAIN c.clone \subseteq DOMAIN c.block
            /\ \A key \in DOMAIN c.block \ {"id"} : Get(c.clone, key) = c.block[key]

\* the ids generateId has returned, in order (cloneBlock calls it once)
IssuedIds ==
    LET made == SelectSeq(utilCalls, LAMBDA c : c.fn \in {"generateId", "cloneBlock"})
    IN  [i \in 1..Len(made) |-> made[i].id]

\* C14: no two calls of generateId return the same id; without crypto.randomUUID
\* the id ends with a counter that goes up by one with every call.
C14_GenerateIdUnique ==
    LET ids == IssuedIds
    IN  /\ \A i, j \in 1..Len(ids) : i # j => ids[i] # ids[j]
        /\ ~cryptoAvailable =>
              /\ idCounter = Len(ids)
              /\ \A i \in 1..Len(ids) : ids[i].v[4] = i - 1

\* two ids were made in the same millisecond without crypto.randomUUID
C14_Witness ==
    /\ ~cryptoAvailable
    /\ \E i, j \in CallsOf("generateId") : i < j /\ utilCalls[i].at = utilCalls[j].at

----------------------------------------------------------------------------
(* Claims about the editor's operations *)

Blocks == arrays[data.blocks]

\* a non-null object with strings as version, createdAt and updatedAt and an
\* array as blocks
StructurallyValid(d) ==
    /\ d.t = "object"
    /\ {"version", "createdAt", "updatedAt", "blocks"} \subseteq DOMAIN d.v
    /\ d.v.version.t = "string"
    /\ d.v.createdAt.t = "string"
    /\ d.v.updatedAt.t = "string"
    /\ d.v.blocks.t = "array"

\* C15: until its first mutation an editor holds the initialData it was given
\* when that is structurally valid, whatever its blocks are, and otherwise (not
\* given, or not valid) an empty document.
C15_InitialDocument ==
    mutations = 0 =>
        IF StructurallyValid(initialData)
        THEN /\ Blocks = initialData.v.blocks.v
             /\ data.version = initialData.v.version.v
             /\ data.createdAt = initialData.v.createdAt.v
             /\ data.updatedAt = initialData.v.updatedAt.v
        ELSE /\ Blocks = <<>>
             /\ data.version = "1.0.0"
             /\ data.createdAt = data.updatedAt

\* an editor given an object that is not a valid document has started empty
C15_Witness ==
    /\ mutations = 0
    /\ initialData.t = "object"
    /\ ~StructurallyValid(initialData)
    /\ Blocks = <<>>
    /\ mounted

\* the blocks after the step
BlocksAfter == arrays'[data'.blocks]

\* the ids of all blocks the session has held so far
IdsSoFar == UNION {Ids(arrays[r]) : r \in 1..Len(arrays)}

\* C16: a step of addBlock(type, afterIndex) makes the document one block longer;
\* the new block has the type asked for and an id no block had before; it is at
\* position afterIndex + 1 when afterIndex is given and not negative, at the
\* end otherwise; the blocks there were keep their content and order.
C16_AddBlockInserts ==
    [][\A type \in AddTypes, afterIndex \in -1..(Length - 1), randomPart \in RandomParts :
          addBlock(type, afterIndex, randomPart) =>
              LET pos == IF afterIndex >= 0 THEN afterIndex + 2 ELSE Length + 1
              IN  /\ Len(BlocksAfter) = Length + 1
                  /\ BlocksAfter[pos].type = Str(type)
                  /\ BlocksAfter[pos].id \notin IdsSoFar
                  /\ Without(BlocksAfter, pos) = Blocks]_vars

\* a list block was added between the two blocks of the given document
C16_Witness ==
    /\ mutations = 1
    /\ Len(Blocks) = 3
    /\ Blocks[1] = BlockA
    /\ Blocks[2].type = Str("list")
    /\ Blocks[3] = BlockB

\* C17: a step of deleteBlock(index) takes out the block at index and keeps the
\* others in order; it can be taken on the only block of a document, and from
\* the empty document addBlock gives a document of one block.
C17_DeleteBlockRemoves ==
    [][/\ \A index \in 0..(Length - 1) :
             deleteBlock(index) => BlocksAfter = Without(Blocks, index + 1)
       /\ Length = 1 /\ CanMutate /\ Offered => ENABLED deleteBlock(0)
       /\ Length = 0 =>
             \A type \in AddTypes, randomPart \in RandomParts :
                 addBlock(type, -1, randomPart) =>
                     Len(BlocksAfter) = 1 /\ BlocksAfter[1].type = Str(type)]_vars

\* the only block of the given document was deleted, and a block was added to
\* the empty document later
C17_Witness ==
    /\ StructurallyValid(initialData)
    /\ Len(bursts) = 2
    /\ bursts[1].n = 1
    /\ bursts[1].blocks = <<>>
    /\ Len(Blocks) = 1

\* C18: a step of duplicateBlock(index) puts at index + 1 a block with an id
\* no block of the document has and with the other properties of the block at
\* index, and leaves the other blocks in order; where there is no block at index
\* there is no step.
C18_DuplicateBlockCopies ==
    [][/\ \A index \in 0..(Length - 1), randomPart \in RandomParts :
             duplicateBlock(index, randomPart) =>
                 LET source == Blocks[index + 1]
                     copy == BlocksAfter[index + 2]
                 IN  /\ Len(BlocksAfter) = Length + 1
                     /\ copy.id \notin Ids(Blocks)
                     /\ \A key \in (DOMAIN source \cup DOMAIN copy) \ {"id"} :
                           Get(copy, key) = Get(source, key)
                     /\ Without(BlocksAfter, index + 2) = Blocks
       /\ \A index \in {-1, Length}, randomPart \in RandomParts :
             ~ENABLED duplicateBlock(index, randomPart)]_vars

\* seq with its elements at positions i and j exchanged
Swap(seq, i, j) == [seq EXCEPT ![i] = seq[j], ![j] = seq[i]]

\* C19: a step of moveBlockUp(index) exchanges the blocks at index and index - 1,
\* a step of moveBlockDown(index) those at index and index + 1, and no other
\* position changes; moveBlockUp(0) and moveBlockDown(length - 1) are no steps.
C19_MoveSwapsNeighbours ==
    [][/\ \A index \in 1..(Length - 1) :
             moveBlockUp(index) => BlocksAfter = Swap(Blocks, index + 1, index)
       /\ \A index \in 0..(Length - 2) :
             moveBlockDown(index) => BlocksAfter = Swap(Blocks, index + 1, index + 2)
       /\ ~ENABLED moveBlockUp(0)
       /\ ~ENABLED moveBlockDown(Length - 1)]_vars

\* the two blocks of the given document have changed places
C19_Witness ==
    /\ mutations = 1
    /\ Blocks = <<BlockB, BlockA>>

\* the block b is among the blocks after the step, id and properties as they were
Kept(b) == \E i \in 1..Len(BlocksAfter) : BlocksAfter[i] = b

AllKept == \A i \in 1..Length : Kept(Blocks[i])

AllKeptBut(index) == \A i \in 1..Length : i # index + 1 => Kept(Blocks[i])

----------------------------------------------------------------------------
(* Editor sessions and viewer sessions side by side *)

InEditor == data # NoDocument
InViewer == currentData # NoDocument

NextSessions ==
    \/ InEditor /\ Next
    \/ InViewer /\ NextDiff

SpecSessions == (Init \/ InitDiff) /\ [][NextSessions]_vars

\* C21: the blocks of the editor's document have pairwise distinct ids, and so
\* have the blocks of the viewer's current document.
C21_IdsUnique ==
    /\ InEditor => UniqueIds(Blocks)
    /\ InViewer => UniqueIds(CurBlocks)

\* without crypto.randomUUID, two blocks of the document got their ids in the
\* same millisecond
C21_Witness ==
    /\ InEditor
    /\ ~cryptoAvailable
    /\ \E i, j \in 1..Len(Blocks) :
          /\ i < j
          /\ Len(Blocks[i].id.v) = 4
          /\ Len(Blocks[j].id.v) = 4
          /\ Blocks[i].id.v[2] = Blocks[j].id.v[2]

\* C22: while readOnly is true no step changes the blocks of the document or
\* its updatedAt, and none schedules a notification.
C22_ReadOnlyChangesNothing ==
    [][InEditor /\ readOnly =>
          /\ BlocksAfter = Blocks
          /\ data'.updatedAt = data.updatedAt
          /\ timers' \subseteq timers]_vars

\* C23: every block of the document the editor holds comes back from
\* JSON.parse(JSON.stringify(...)) equal to itself, property for property.
C23_JsonRoundTrip ==
    InEditor => \A i \in 1..Len(Blocks) : JsonObject(Blocks[i]) = Blocks[i]

----------------------------------------------------------------------------
(* deepEqual called directly *)

EmptyObject == Obj([key \in {} |-> Undefined])
CellPlain == Obj([content |-> Str("")])
CellNoHeader == Obj([content |-> Str(""), header |-> Undefined])
CellLeft == Obj([content |-> Str(""), alignment |-> Str("left")])

\* the values deepEqual is handed
EqualPool == {Undefined, Null, Num(1), Str("1"), Bool(TRUE),
              Arr(<<>>), Arr(<<Num(1)>>), Arr(<<CellNoHeader>>), Arr(<<CellLeft>>),
              EmptyObject, CellPlain, CellNoHeader, CellLeft}

callDeepEqual ==
    /\ Len(utilCalls) = 1
    /\ utilCalls[1].fn = "deepEqual"
    /\ utilCalls[1].result = Undefined
    /\ utilCalls' = <<[utilCalls[1] EXCEPT
                          !.result = Bool(deepEqual(utilCalls[1].a, utilCalls[1].b))]>>
    /\ UNCHANGED <<arrays, now, onChangeCalls>>
    /\ UNCHANGED editorVars
    /\ UNCHANGED diffVars
    /\ UNCHANGED blockVars

InitEqual ==
    /\ \E a \in EqualPool, b \in EqualPool :
          utilCalls = <<[fn |-> "deepEqual", a |-> a, b |-> b, result |-> Undefined]>>
    /\ arrays = <<>>
    /\ now = 1
    /\ cryptoAvailable = TRUE
    /\ uuidCount = 0
    /\ idCounter = 0
    /\ onChangeCalls = <<>>
    /\ hasOnChange = FALSE
    /\ initialData = Undefined
    /\ readOnly = FALSE
    /\ uploads = {}
    /\ data = NoDocument
    /\ debounceTimerRef = 0
    /\ timers = {}
    /\ nextTimerId = 1
    /\ mounted = FALSE
    /\ mutations = 0
    /\ bursts = <<>>
    /\ lastMutationAt = -1
    /\ unmountPending = -1
    /\ oldData = NoDocument
    /\ newData = NoDocument
    /\ currentData = NoDocument
    /\ lastRevert = NoRevert
    /\ blockProp = NoBlock
    /\ activeCell = Null
    /\ edits = 0

NextEqual == callDeepEqual

SpecEqual == InitEqual /\ [][NextEqual]_vars

\* C24: deepEqual(a, b) is true exactly when a and b are the same value:
\* the same primitive, null or undefined, arrays of one length with equal
\* elements, objects with the same keys and an equal value under every key.
C24_DeepEqualIsStructural ==
    \A i \in 1..Len(utilCalls) :
        utilCalls[i].fn = "deepEqual" /\ utilCalls[i].result # Undefined =>
            utilCalls[i].result = Bool(utilCalls[i].a = utilCalls[i].b)

----------------------------------------------------------------------------
(* The stored document across a mutation *)

----------------------------------------------------------------------------
(* blocks/TableBlock.tsx: the handlers of ListBlock and TableBlock *)

MaxEdits == 3          \* onUpdate calls of one block component

ItemTexts == {"x"}                   \* what is typed into an item or a cell
ListTypes == {"bullet", "numbered", "checklist"}
TableSizes == {<<1, 1>>, <<2, 2>>, <<3, 3>>}   \* createTableBlock(rows, cols)

Truthy(x) == x \notin {Undefined, Null, Bool(FALSE), Str(""), Num(0)}

CanEdit == edits < MaxEdits

\* onUpdate(newBlock): the parent stores the block and renders the component with it
onUpdate(newBlock) ==
    /\ CanEdit
    /\ blockProp' = newBlock
    /\ edits' = edits + 1
    /\ UNCHANGED <<arrays, now, onChangeCalls>>
    /\ UNCHANGED editorVars
    /\ UNCHANGED diffVars
    /\ UNCHANGED utilVars

IsList == blockProp.type = Str("list")
IsTable == blockProp.type = Str("table")

Items == IF IsList THEN blockProp.items.v ELSE <<>>
ItemIndices == 0..(Len(Items) - 1)       \* block.items.map((item, index) => ...)

updateItem(index, value) ==
    /\ IsList
    /\ onUpdate([blockProp EXCEPT !.items = Arr([Items EXCEPT ![index + 1] = Str(value)])])
    /\ UNCHANGED activeCell

addItem(afterIndex) ==
    /\ IsList
    /\ LET insertIndex == IF afterIndex # Undefined THEN afterIndex.v + 1 ELSE Len(Items)
           newItems == Splice(Items, insertIndex, 0, <<Str("")>>).arr
           newCheckedItems ==
               IF Truthy(blockProp.checkedItems)
               THEN Arr(Splice(blockProp.checkedItems.v, insertIndex, 0, <<Bool(FALSE)>>).arr)
               ELSE Undefined
       IN  onUpdate([blockProp EXCEPT !.items = Arr(newItems),
                                      !.checkedItems = newCheckedItems])
    /\ UNCHANGED activeCell

removeItem(index) ==
    /\ IsList
    /\ ~(Len(Items) <= 1)
    /\ LET newItems == Without(Items, index + 1)
           newCheckedItems ==
               IF blockProp.checkedItems \in {Undefined, Null} THEN Undefined
               ELSE Arr(Without(blockProp.checkedItems.v, index + 1))
       IN  onUpdate([blockProp EXCEPT !.items = Arr(newItems),
                                      !.checkedItems = newCheckedItems])
    /\ UNCHANGED activeCell

toggleChecked(index) ==
    /\ IsList
    /\ Truthy(blockProp.checkedItems)
    /\ LET checked == blockProp.checkedItems.v
           newCheckedItems == [checked EXCEPT ![index + 1] = Bool(~Truthy(checked[index + 1]))]
       IN  onUpdate([blockProp EXCEPT !.checkedItems = Arr(newCheckedItems)])
    /\ UNCHANGED activeCell

setListType(listType) ==
    /\ IsList
    /\ onUpdate([blockProp EXCEPT
                    !.listType = Str(listType),
                    !.checkedItems = IF listType = "checklist"
                                     THEN Arr([i \in 1..Len(Items) |-> Bool(FALSE)])
                                     ELSE Undefined])
    /\ UNCHANGED activeCell

Rows == IF IsTable THEN blockProp.rows.v ELSE <<>>
RowIndices == 0..(Len(Rows) - 1)
ColIndices(rowIndex) == 0..(Len(Rows[rowIndex + 1].v) - 1)
FirstRowLength == IF Len(Rows) > 0 THEN Len(Rows[1].v) ELSE 0    \* block.rows[0]?.length ?? 0

\* the toolbar is rendered only while a cell is active
ToolbarShown == IsTable /\ activeCell # Null

handleCellFocus(row, col) ==
    /\ IsTable
    /\ activeCell # [row |-> row, col |-> col]
    /\ activeCell' = [row |-> row, col |-> col]
    /\ UNCHANGED <<blockProp, edits>>
    /\ UNCHANGED <<arrays, now, onChangeCalls>>
    /\ UNCHANGED editorVars
    /\ UNCHANGED diffVars
    /\ UNCHANGED utilVars

updateCell(rowIndex, colIndex, content) ==
    /\ IsTable
    /\ rowIndex \in RowIndices
    /\ colIndex \in ColIndices(rowIndex)
    /\ LET currentRow == Rows[rowIndex + 1].v
           currentCell == currentRow[colIndex + 1]
           newRow == [currentRow EXCEPT
                         ![colIndex + 1] = Obj(With(currentCell.v, "content", Str(content)))]
       IN  onUpdate([blockProp EXCEPT !.rows = Arr([Rows EXCEPT ![rowIndex + 1] = Arr(newRow)])])
    /\ UNCHANGED activeCell

\* addRow whose new row always has three cells
addRowOfThree ==
    /\ ToolbarShown
    /\ LET newRow == [c \in 1..3 |-> Obj([content |-> Str("")])]
       IN  onUpdate([blockProp EXCEPT !.rows = Arr(Append(Rows, Arr(newRow)))])
    /\ UNCHANGED activeCell

addRow ==
    /\ ToolbarShown
    /\ LET colCount == IF FirstRowLength # 0 THEN FirstRowLength ELSE 3
           newRow == [c \in 1..colCount |-> Obj([content |-> Str("")])]
       IN  onUpdate([blockProp EXCEPT !.rows = Arr(Append(Rows, Arr(newRow)))])
    /\ UNCHANGED activeCell

addColumn ==
    /\ ToolbarShown
    /\ LET newRows == [r \in 1..Len(Rows) |->
                          Arr(Append(Rows[r].v,
                                     Obj([content |-> Str(""),
                                          header |-> IF r = 1 THEN Get(blockProp, "hasHeader")
                                                     ELSE Bool(FALSE)])))]
       IN  onUpdate([blockProp EXCEPT !.rows = Arr(newRows)])
    /\ UNCHANGED activeCell

deleteRow(rowIndex) ==
    /\ ToolbarShown
    /\ ~(Len(Rows) <= 1)
    /\ onUpdate([blockProp EXCEPT !.rows = Arr(Without(Rows, rowIndex + 1))])
    /\ activeCell' = Null

deleteColumn(colIndex) ==
    /\ ToolbarShown
    /\ ~(FirstRowLength <= 1)
    /\ onUpdate([blockProp EXCEPT
                    !.rows = Arr([r \in 1..Len(Rows) |-> Arr(Without(Rows[r].v, colIndex + 1))])])
    /\ activeCell' = Null

moveRowUp(rowIndex) ==
    /\ ToolbarShown
    /\ rowIndex # 0
    /\ onUpdate([blockProp EXCEPT !.rows = Arr(Swap(Rows, rowIndex, rowIndex + 1))])
    /\ UNCHANGED activeCell

moveRowDown(rowIndex) ==
    /\ ToolbarShown
    /\ ~(rowIndex >= Len(Rows) - 1)
    /\ onUpdate([blockProp EXCEPT !.rows = Arr(Swap(Rows, rowIndex + 1, rowIndex + 2))])
    /\ UNCHANGED activeCell

moveColumnLeft(colIndex) ==
    /\ ToolbarShown
    /\ colIndex # 0
    /\ onUpdate([blockProp EXCEPT
                    !.rows = Arr([r \in 1..Len(Rows) |->
                                     Arr(Swap(Rows[r].v, colIndex, colIndex + 1))])])
    /\ UNCHANGED activeCell

moveColumnRight(colIndex) ==
    /\ ToolbarShown
    /\ ~(colIndex >= FirstRowLength - 1)
    /\ onUpdate([blockProp EXCEPT
                    !.rows = Arr([r \in 1..Len(Rows) |->
                                     Arr(Swap(Rows[r].v, colIndex + 1, colIndex + 2))])])
    /\ UNCHANGED activeCell

toggleHeader ==
    /\ ToolbarShown
    /\ LET flipped == Bool(~Truthy(Get(blockProp, "hasHeader")))
           newRows == [r \in 1..Len(Rows) |->
                          Arr([c \in 1..Len(Rows[r].v) |->
                                  Obj(With(Rows[r].v[c].v, "header",
                                           IF r = 1 THEN flipped ELSE Bool(FALSE)))])]
       IN  onUpdate([blockProp EXCEPT !.rows = Arr(newRows), !.hasHeader = flipped])
    /\ UNCHANGED activeCell

InitBlocks ==
    /\ blockProp \in {createListBlock(CallerId("l"), listType) : listType \in ListTypes}
                     \cup {createTableBlock(CallerId("t"), size[1], size[2]) : size \in TableSizes}
    /\ activeCell = Null
    /\ edits = 0
    /\ arrays = <<>>
    /\ now = 1
    /\ cryptoAvailable = TRUE
    /\ uuidCount = 0
    /\ idCounter = 0
    /\ onChangeCalls = <<>>
    /\ hasOnChange = FALSE
    /\ initialData = Undefined
    /\ readOnly = FALSE
    /\ uploads = {}
    /\ data = NoDocument
    /\ debounceTimerRef = 0
    /\ timers = {}
    /\ nextTimerId = 1
    /\ mounted = FALSE
    /\ mutations = 0
    /\ bursts = <<>>
    /\ lastMutationAt = -1
    /\ unmountPending = -1
    /\ oldData = NoDocument
    /\ newData = NoDocument
    /\ currentData = NoDocument
    /\ lastRevert = NoRevert
    /\ utilCalls = NoCalls

NextBlocks ==
    \/ \E index \in ItemIndices, value \in ItemTexts : updateItem(index, value)
    \/ \E afterIndex \in {Undefined} \cup {Num(i) : i \in ItemIndices} : addItem(afterIndex)
    \/ \E index \in ItemIndices : removeItem(index)
    \/ \E index \in ItemIndices : toggleChecked(index)
    \/ \E listType \in ListTypes : setListType(listType)
    \/ \E row \in RowIndices : \E col \in ColIndices(row) : handleCellFocus(row, col)
    \/ \E row \in RowIndices : \E col \in ColIndices(row), content \in ItemTexts :
          updateCell(row, col, content)
    \/ addRow
    \/ addColumn
    \/ deleteRow(activeCell.row)
    \/ deleteColumn(activeCell.col)
    \/ moveRowUp(activeCell.row)
    \/ moveRowDown(activeCell.row)
    \/ moveColumnLeft(activeCell.col)
    \/ moveColumnRight(activeCell.col)
    \/ toggleHeader

SpecBlocks == InitBlocks /\ [][NextBlocks]_vars

\* C26: a list block made by createListBlock and edited with updateItem,
\* addItem, removeItem, toggleChecked and setListType has, whenever it has
\* checkedItems, as many of them as items; a table block made by
\* createTableBlock and edited with updateCell, addRow, addColumn, deleteRow,
\* deleteColumn, the row and column moves and toggleHeader has the same number
\* of cells in every row.
C26_BlockShape ==
    /\ IsList /\ blockProp.checkedItems # Undefined =>
          /\ blockProp.checkedItems.t = "array"
          /\ Len(blockProp.checkedItems.v) = Len(Items)
    /\ IsTable =>
          \A r \in 1..Len(Rows) :
              /\ Rows[r].t = "array"
              /\ Len(Rows[r].v) = FirstRowLength
              /\ \A c \in 1..Len(Rows[r].v) : Rows[r].v[c].t = "object"

C26_Witness ==
    /\ IsTable /\ edits = MaxEdits
    /\ Len(Rows) = 3 /\ FirstRowLength = 4
    /\ \E c \in 1..3 : Rows[1].v[c] # Rows[1].v[c + 1]

----------------------------------------------------------------------------
(* The editor with a changing initialData prop and image uploads *)

ImageI == createImageBlock(CallerId("i"), "", "")

\* the document the session starts with and what initialData changes to
FirstData == EditorDataValue(Str("2.0.0"), Str(0), Str(0), Arr(<<ImageI, BlockA>>))
LaterDatas == {Null, EditorDataValue(Str("2.0.0"), Str(0), Str(1), Arr(<<BlockB>>))}

\* fileToBase64(file) and file.name
UploadedSrc == Str("data:image/png;base64")
UploadedAlt == Str("photo.png")

\* the effect on [initialData]: the prop changes to given
setInitialData(given) ==
    /\ mounted
    /\ ~TimerDue
    /\ initialData \notin LaterDatas
    /\ initialData' = given
    /\ IF given \notin {Undefined, Null} /\ validateEditorData(given)
       THEN /\ arrays' = initialState(arrays, given, now).h
            /\ data' = initialState(arrays, given, now).data
       ELSE UNCHANGED <<arrays, data>>
    /\ UNCHANGED <<now, onChangeCalls, debounceTimerRef, timers, nextTimerId, mounted,
                   hasOnChange, readOnly, uploads, cryptoAvailable, uuidCount, idCounter,
                   mutations, bursts, lastMutationAt, unmountPending>>
    /\ UNCHANGED diffVars
    /\ UNCHANGED blockVars
    /\ UNCHANGED utilVars

\* handleFileChange up to its await: block, index and the render's updateBlock
\* (with its data) are what the continuation will use
startUpload(index) ==
    /\ mounted
    /\ Offered
    /\ ~TimerDue
    /\ uploads = {}
    /\ index \in 0..(Length - 1)
    /\ arrays[data.blocks][index + 1].type = Str("image")
    /\ uploads' = {[index |-> index, block |-> arrays[data.blocks][index + 1],
                    data |-> data]}
    /\ UNCHANGED <<arrays, now, onChangeCalls, data, debounceTimerRef, timers, nextTimerId,
                   mounted, hasOnChange, initialData, readOnly, cryptoAvailable, uuidCount,
                   idCounter, mutations, bursts, lastMutationAt, unmountPending>>
    /\ UNCHANGED diffVars
    /\ UNCHANGED blockVars
    /\ UNCHANGED utilVars

\* updateData of the render that saw the document captured
updateDataOfRender(captured, h, r) ==
    LET newDoc == [captured EXCEPT !.blocks = r, !.updatedAt = now]
        inBurst == lastMutationAt >= 0 /\ now - lastMutationAt < debounceDelayTicks
        entry == [data |-> newDoc, blocks |-> h[r],
                  n |-> IF inBurst THEN bursts[Len(bursts)].n + 1 ELSE 1]
    IN  /\ arrays' = h
        /\ data' = newDoc
        /\ IF hasOnChange
           THEN /\ timers' = scheduleNotification(timers, debounceTimerRef, nextTimerId,
                                                  now + debounceDelayTicks, captured, newDoc)
                /\ debounceTimerRef' = nextTimerId
                /\ nextTimerId' = nextTimerId + 1
           ELSE UNCHANGED <<timers, debounceTimerRef, nextTimerId>>
        /\ mutations' = mutations + 1
        /\ bursts' = IF inBurst
                     THEN [bursts EXCEPT ![Len(bursts)] = entry]
                     ELSE Append(bursts, entry)
        /\ lastMutationAt' = now
        /\ UNCHANGED <<now, onChangeCalls, mounted, hasOnChange, initialData, readOnly,
                       cryptoAvailable, uuidCount, idCounter, unmountPending>>
        /\ UNCHANGED diffVars
        /\ UNCHANGED blockVars
        /\ UNCHANGED utilVars

\* handleFileChange after its await: onUpdate({...block, src: base64, alt: file.name})
finishUpload ==
    /\ CanMutate
    /\ \E u \in uploads :
          LET updatedBlock == With(With(u.block, "src", UploadedSrc), "alt", UploadedAlt)
              a == Alloc(arrays, [arrays[u.data.blocks] EXCEPT ![u.index + 1] = updatedBlock])
          IN  /\ updateDataOfRender(u.data, a.h, a.r)
              /\ uploads' = uploads \ {u}

InitAsync ==
    /\ now = 1
    /\ initialData = FirstData
    /\ readOnly = FALSE
    /\ uploads = {}
    /\ arrays = initialState(<<>>, initialData, now).h
    /\ data = initialState(<<>>, initialData, now).data
    /\ utilCalls = NoCalls
    /\ onChangeCalls = <<>>
    /\ debounceTimerRef = 0
    /\ timers = {}
    /\ nextTimerId = 1
    /\ mounted = TRUE
    /\ hasOnChange = TRUE
    /\ cryptoAvailable = TRUE
    /\ uuidCount = 0
    /\ idCounter = 0
    /\ mutations = 0
    /\ bursts = <<>>
    /\ lastMutationAt = -1
    /\ unmountPending = -1
    /\ oldData = NoDocument
    /\ newData = NoDocument
    /\ currentData = NoDocument
    /\ lastRevert = NoRevert
    /\ blockProp = NoBlock
    /\ activeCell = Null
    /\ edits = 0

NextAsync ==
    \/ Next
    \/ \E given \in LaterDatas : setInitialData(given)
    \/ \E index \in 0..(Length - 1) : startUpload(index)
    \/ finishUpload

SpecAsync == InitAsync /\ [][NextAsync]_vars

LastCall == onChangeCalls'[Len(onChangeCalls')]

\* C27: when a debounce timer fires, the document onChange is called with is
\* the document the editor holds at that moment: the same version, createdAt
\* and updatedAt and the same blocks.
C27_NotifiesCurrentDocument ==
    [][Len(onChangeCalls') = Len(onChangeCalls) + 1 =>
          /\ LastCall.data.version = data.version
          /\ LastCall.data.createdAt = data.createdAt
          /\ LastCall.data.updatedAt = data.updatedAt
          /\ LastCall.blocks = Blocks]_vars

\* the position of the block with this id among blocks, 0 when there is none
PositionOf(blocks, id) ==
    IF \E p \in 1..Len(blocks) : blocks[p].id = id
    THEN CHOOSE p \in 1..Len(blocks) : blocks[p].id = id
    ELSE 0

\* C28: when an upload completes, the document is the one the editor held just
\* before with the src and alt of the image block that started the upload
\* replaced, where that block is still there; every other block and the order
\* of the blocks are as they were just before.
C28_UploadLosesNoUpdate ==
    [][\A u \in uploads : u \notin uploads' =>
          LET p == PositionOf(Blocks, u.block.id)
          IN  BlocksAfter =
                  IF p = 0 THEN Blocks
                  ELSE [Blocks EXCEPT ![p] = With(With(Blocks[p], "src", UploadedSrc),
                                                  "alt", UploadedAlt)]]_vars

----------------------------------------------------------------------------
(* Reverting every difference *)

\* summary.added + summary.removed + summary.modified of the viewer's diff
NonUnchanged ==
    diffResult.summary.added + diffResult.summary.removed + diffResult.summary.modified

BlockSet(blocks) == {blocks[i] : i \in 1..Len(blocks)}

\* C29: every revert of an added, removed or modified entry of the viewer's
\* diff lowers the number of entries that are not unchanged by one, and when
\* that number is zero the current document holds exactly the blocks of the
\* old document.
C29_RevertConverges ==
    [][/\ \A diff \in DiffEntries :
             handleRevert(diff) => NonUnchanged' = NonUnchanged - 1
       /\ NonUnchanged = 0 =>
             /\ Len(CurBlocks) = Len(OldBlocks)
             /\ BlockSet(CurBlocks) = BlockSet(OldBlocks)]_vars

----------------------------------------------------------------------------
(* The diff and the order of the blocks *)

\* the arrays that hold the blocks of an array in another order
Reorderings(blocks) ==
    {[i \in 1..Len(blocks) |-> blocks[f[i]]] : f \in Permutations(1..Len(blocks))}

\* compareEditorData of two documents with these blocks
DiffOf(oldBlocks, newBlocks) ==
    compareEditorData(<<oldBlocks, newBlocks>>,
                      [oldData EXCEPT !.blocks = 1], [currentData EXCEPT !.blocks = 2])

SameEntries(result, other) ==
    /\ Len(result.blocks) = Len(other.blocks)
    /\ BlockSet(result.blocks) = BlockSet(other.blocks)
    /\ result.summary = other.summary

\* C30: with unique ids, the diff of old against any reordering of new, and of
\* any reordering of old against new, has the entries of the diff of old
\* against new, each with its type and its changes, in some order, and the
\* same summary; the diff of old against a reordering of old has only
\* unchanged entries.
C30_PositionInsensitive ==
    InViewer /\ UniqueIds(OldBlocks) /\ UniqueIds(CurBlocks) =>
        /\ \A newBlocks \in Reorderings(CurBlocks) :
              SameEntries(DiffOf(OldBlocks, newBlocks), diffResult)
        /\ \A oldBlocks \in Reorderings(OldBlocks) :
              /\ SameEntries(DiffOf(oldBlocks, CurBlocks), diffResult)
              /\ \A d \in BlockSet(DiffOf(OldBlocks, oldBlocks).blocks) : d.type = "unchanged"

\* two blocks of new that the diff classifies differently, and two blocks of old
C30_Witness ==
    /\ InViewer
    /\ Len(OldBlocks) >= 2
    /\ Len(CurBlocks) >= 2
    /\ Entries[1].type = "modified"
    /\ Entries[2].type = "added"

====
